---- MODULE Spec2Model ----
(***************************************************************************)
(* A model of dscmd.py, the command-line client of a Docserv2 instance.    *)
(*                                                                         *)
(* One run of the program is one behaviour: parsecli() builds the argument *)
(* namespace, main() calls the function bound to the sub-command, that     *)
(* function validates its selectors, builds the payload and talks to the   *)
(* server, and the process exits.  Python strings are sequences of         *)
(* one-character strings, so that splitting, substring search, prefix      *)
(* tests and the regular expression of queue() are computed character by   *)
(* character as the interpreter computes them.                             *)
(***************************************************************************)
EXTENDS Integers, Sequences, FiniteSets, TLC

VARIABLES
    pc,          \* position of the process
    caller,      \* "main": sys.exit(main());  "direct": the handler is called with the namespace
    subcommand,  \* args.subcommand
    raw,         \* the option strings as given: targets, products, docsets, langs
    debug,       \* args.debug  (meta only)
    full,        \* args.full   (queue only)
    config,      \* args.config: server, port, validtargets
    func,        \* args.func
    called,      \* the handler function that was entered, if any
    targets, products, docsets, langs,   \* the parsed selector lists
    server_url,  \* the local server_url of the running handler
    payload,     \* the local payload of the running handler
    built,       \* whether the handler has built its payload
    posts,       \* requests.post calls issued so far, each [url, json]
    gets,        \* requests.get calls issued so far, each a url
    response,    \* the answer of the server to the call in flight
    printed,     \* what the handler wrote with print()
    logged,      \* log.info / log.error / log.fatal records of the handlers
    ret,         \* the value returned by the handler
    raised,      \* the exception that left the handler
    exitcode     \* the exit status of the process

vars == <<pc, caller, subcommand, raw, debug, full, config, func, called, targets,
          products, docsets, langs, server_url, payload, built, posts, gets,
          response, printed, logged, ret, raised, exitcode>>

-----------------------------------------------------------------------------
(* Bounds of the model *)

\* longest selector list, in tokens, of the selector menus
MaxSel == 2
\* longest raw selector string, in characters, of the parser menu
MaxRaw == 3
\* longest queue, in items, the server answers with
MaxItems == 2
\* most jobs of a payload of the job-matrix menu
MaxJobs == 16

-----------------------------------------------------------------------------
(* Program constants *)

HTTP_OK == 200
InvalidTargetCode == 20
ValueErrorCode == 100
TransportFailureCode == 1
\* argparse: ArgumentParser.error() ends the process with status 2
ParserErrorStatus == 2
\* the interpreter ends with status 1 on an exception nobody caught
UncaughtStatus == 1
\* the quantifier {9} of the pattern in queue()
HexTokenLen == 9

\* the marker of "no value yet"; no status code or exit status is negative
NoCode == 0 - 1

-----------------------------------------------------------------------------
(* Strings *)

S_sep == {",", ";", " "}
S_colon == <<":">>
S_http == <<"h", "t", "t", "p">>
S_scheme == <<"h", "t", "t", "p", ":", "/", "/">>
S_metadata == <<"/", "m", "e", "t", "a", "d", "a", "t", "a">>
S_enus == <<"e", "n", "-", "u", "s">>
S_dashes == <<"-", "-", "-">>
S_quote == <<"\"">>
HexChars == {"a", "b", "c", "d", "e", "f",
             "0", "1", "2", "3", "4", "5", "6", "7", "8", "9"}
Digits == <<"0", "1", "2", "3", "4", "5", "6", "7", "8", "9">>

\* all sequences over S of length at most n
SeqsUpTo(S, n) == UNION {[1..k -> S] : k \in 0..n}

\* str.startswith
StartsWith(s, p) == Len(s) >= Len(p) /\ SubSeq(s, 1, Len(p)) = p

\* the operator `in` of two str: a left-to-right search for the first place
\* where t occurs in s
RECURSIVE FindFrom(_, _, _)
FindFrom(t, s, i) ==
    IF i + Len(t) - 1 > Len(s) THEN FALSE
    ELSE IF SubSeq(s, i, i + Len(t) - 1) = t THEN TRUE
    ELSE FindFrom(t, s, i + 1)

-----------------------------------------------------------------------------
(* The Selector Parser: SEPARATOR.split and the lines of parsecli that use it *)

\* re.split of the pattern [,; ]: every separator character ends a token,
\* the tokens between two adjacent separators are empty strings, and the
\* text after the last separator is the last token
RECURSIVE SplitScan(_, _, _)
SplitScan(s, cur, acc) ==
    IF s = <<>> THEN Append(acc, cur)
    ELSE IF Head(s) \in S_sep THEN SplitScan(Tail(s), <<>>, Append(acc, cur))
    ELSE SplitScan(Tail(s), Append(cur, Head(s)), acc)

SEPARATOR_split(s) == SplitScan(s, <<>>, <<>>)

\* an option of the command line: not given (argparse leaves None) or a string
Absent == [given |-> FALSE, s |-> <<>>]
Given(s) == [given |-> TRUE, s |-> s]

\* [] if args.x is None else SEPARATOR.split(args.x)
ParseSelector(r) == IF ~r.given THEN <<>> ELSE SEPARATOR_split(r.s)

\* `target in config['validtargets']`, both str
StrIn_member(t, s) == \E i \in 1..Len(SEPARATOR_split(s)) : SEPARATOR_split(s)[i] = t
StrIn(t, s) == FindFrom(t, s, 1)

-----------------------------------------------------------------------------
(* The Job Matrix: itertools.product and the payload comprehension *)

\* [x + [y] for y in pool]
RECURSIVE AppendEach(_, _)
AppendEach(x, pool) ==
    IF pool = <<>> THEN <<>>
    ELSE <<Append(x, Head(pool))>> \o AppendEach(x, Tail(pool))

\* [x + [y] for x in result for y in pool]
RECURSIVE Extend(_, _)
Extend(result, pool) ==
    IF result = <<>> THEN <<>>
    ELSE AppendEach(Head(result), pool) \o Extend(Tail(result), pool)

\* itertools.product(*pools): result = [[]], then one Extend per pool
RECURSIVE ProductFrom(_, _)
ProductFrom(result, pools) ==
    IF pools = <<>> THEN result
    ELSE ProductFrom(Extend(result, Head(pools)), Tail(pools))

\* the same tuples with lang as the outermost loop and target as the innermost
product_langfirst(t, p, d, l) ==
    LET r == ProductFrom(<< <<>> >>, <<l, d, p, t>>)
    IN  [i \in 1..Len(r) |-> <<r[i][4], r[i][3], r[i][2], r[i][1]>>]
product(t, p, d, l) == ProductFrom(<< <<>> >>, <<t, p, d, l>>)

Job(x) == [target |-> x[1], product |-> x[2], docset |-> x[3], lang |-> x[4]]

\* [{"target": t, ...} for t, p, d, l in product(targets, products, docsets, langs)]
BuildPayload(t, p, d, l) ==
    LET tuples == product(t, p, d, l)
    IN  [i \in 1..Len(tuples) |-> Job(tuples[i])]

-----------------------------------------------------------------------------
(* The destination URL *)

\* f"{config['server']}:{config['port']}"
BaseUrl(cfg) == cfg.server \o S_colon \o cfg.port

\* queue, lines 219-221, and trigger, lines 295-297
PlainUrl(cfg) ==
    IF ~StartsWith(BaseUrl(cfg), S_http) THEN S_scheme \o BaseUrl(cfg)
    ELSE BaseUrl(cfg)

\* metadata, lines 314-316
MetadataUrl_always(cfg) ==
    IF ~StartsWith(BaseUrl(cfg), S_http) THEN S_scheme \o BaseUrl(cfg) \o S_metadata
    ELSE BaseUrl(cfg) \o S_metadata
MetadataUrl(cfg) ==
    IF ~StartsWith(BaseUrl(cfg), S_http) THEN S_scheme \o BaseUrl(cfg) \o S_metadata
    ELSE BaseUrl(cfg)

-----------------------------------------------------------------------------
(* The Queue Reporter: values of the JSON answer and how they are rendered *)

\* a JSON value: a string, an integer or a boolean
StrVal(s) == [t |-> "str", s |-> s, n |-> 0]
IntVal(n) == [t |-> "int", s |-> <<>>, n |-> n]
BoolVal(b) == [t |-> "bool", s |-> <<>>, n |-> IF b THEN 1 ELSE 0]

\* str() of a non-negative int: its decimal digits
RECURSIVE Decimal(_)
Decimal(n) ==
    IF n < 10 THEN <<Digits[n + 1]>>
    ELSE Append(Decimal(n \div 10), Digits[(n % 10) + 1])

\* str(value), as the f-string and print() apply it
Str(v) ==
    CASE v.t = "str" -> v.s
      [] v.t = "int" -> IF v.n < 0 THEN <<"-">> \o Decimal(0 - v.n) ELSE Decimal(v.n)
      [] v.t = "bool" -> IF v.n = 1 THEN <<"T", "r", "u", "e">>
                         ELSE <<"F", "a", "l", "s", "e">>

\* re.match(r'^"[a-f0-9]{9}"$', q): a quote, nine characters of the class,
\* a quote, and then the end of the string or one newline that ends it
MatchQuotedHex_unanchored(q) ==
    /\ Len(q) >= HexTokenLen + 2
    /\ q[1] = "\""
    /\ \A i \in 2..(HexTokenLen + 1) : q[i] \in HexChars
MatchQuotedHex(q) ==
    /\ Len(q) >= HexTokenLen + 2
    /\ q[1] = "\""
    /\ \A i \in 2..(HexTokenLen + 1) : q[i] \in HexChars
    /\ q[HexTokenLen + 2] = "\""
    /\ \/ Len(q) = HexTokenLen + 2
       \/ Len(q) = HexTokenLen + 3 /\ q[HexTokenLen + 3] = "\n"

QueueKeys == <<"id", "product", "docset", "lang", "open", "building">>

\* item.get(key, "")
ItemGet(item, key) == IF key \in DOMAIN item THEN item[key] ELSE StrVal(<<>>)

\* one pass of the inner loop: the value, or "---" when the pattern matches
\* f'"{value}"'; print(value) then writes str(value)
RenderField(item, key) ==
    LET value == ItemGet(item, key)
    IN  IF MatchQuotedHex(S_quote \o Str(value) \o S_quote) THEN S_dashes
        ELSE Str(value)

\* the lines print() writes for one item, and for the whole answer
RenderItem(item) == [k \in 1..Len(QueueKeys) |-> RenderField(item, QueueKeys[k])]

RECURSIVE RenderQueue(_)
RenderQueue(data) ==
    IF data = <<>> THEN <<>>
    ELSE RenderItem(Head(data)) \o RenderQueue(Tail(data))

-----------------------------------------------------------------------------
(* Values of the state *)

QueueCmds == {"queue", "q"}
MetaCmds == {"meta", "m", "metadata"}
TriggerCmds == {"trigger", "t"}
Subcommands == QueueCmds \cup MetaCmds \cup TriggerCmds

NoResponse == [kind |-> "none", status |-> NoCode, text |-> "", json |-> <<>>]
HttpResponse(status, text, json) ==
    [kind |-> "http", status |-> status, text |-> text, json |-> json]
\* requests raises a RequestException: no connection, a timeout
TransportFailure == [kind |-> "error", status |-> NoCode, text |-> "", json |-> <<>>]

NothingPrinted == [kind |-> "none", lines |-> <<>>, json |-> <<>>, sel |-> <<>>]

LogRec(fn, level, msg, code, text, arg) ==
    [fn |-> fn, level |-> level, msg |-> msg, code |-> code, text |-> text, arg |-> arg]

-----------------------------------------------------------------------------
(* parsecli *)

\* lines 165, 175, 192: what set_defaults(func=...) binds.  In parsecli the
\* name `queue` is the sub-parser returned by add_parser on line 149, so
\* line 165 binds that ArgumentParser object, not the function queue()
FuncOf(cmd) ==
    CASE cmd \in QueueCmds -> "queue_subparser"
      [] cmd \in MetaCmds -> "metadata"
      [] cmd \in TriggerCmds -> "trigger"

\* the module-level function a sub-command names
HandlerOf(cmd) ==
    CASE cmd \in QueueCmds -> "queue"
      [] cmd \in MetaCmds -> "metadata"
      [] cmd \in TriggerCmds -> "trigger"

\* an ArgumentParser object has no __call__
Callable(f) == f \in {"queue", "metadata", "trigger"}

parsecli ==
    /\ pc = "start"
    /\ func' = FuncOf(subcommand)
    /\ IF subcommand \in {"trigger", "t", "meta", "metadata", "m"}
       THEN /\ targets' = ParseSelector(raw.targets)
            /\ products' = ParseSelector(raw.products)
            /\ docsets' = ParseSelector(raw.docsets)
            /\ langs' = ParseSelector(raw.langs)
       ELSE UNCHANGED <<targets, products, docsets, langs>>
    /\ pc' = "parsed"
    /\ UNCHANGED <<caller, called, subcommand, raw, debug, full, config, server_url,
                   payload, built, posts, gets, response, printed, logged,
                   ret, raised, exitcode>>

-----------------------------------------------------------------------------
(* main, up to the call of args.func, and a direct call of the handler *)

main_call ==
    /\ pc = "parsed"
    /\ caller = "main"
    /\ IF Callable(func)
       THEN pc' = func /\ called' = func /\ UNCHANGED raised
       ELSE pc' = "unwound" /\ raised' = "TypeError" /\ UNCHANGED called
    /\ UNCHANGED <<caller, subcommand, raw, debug, full, config, func, targets,
                   products, docsets, langs, server_url, payload, built, posts,
                   gets, response, printed, logged, ret, exitcode>>

direct_call ==
    /\ pc = "parsed"
    /\ caller = "direct"
    /\ pc' = HandlerOf(subcommand)
    /\ called' = HandlerOf(subcommand)
    /\ UNCHANGED <<caller, subcommand, raw, debug, full, config, func, targets,
                   products, docsets, langs, server_url, payload, built, posts,
                   gets, response, printed, logged, ret, raised, exitcode>>

-----------------------------------------------------------------------------
(* trigger *)

\* the loop of lines 274-281: the position of the first target that is not
\* in config['validtargets'], or 0 when the loop ends without a return
RECURSIVE FirstInvalidFrom(_, _, _)
FirstInvalidFrom(ts, valid, i) ==
    IF i > Len(ts) THEN 0
    ELSE IF ~StrIn(ts[i], valid) THEN i
    ELSE FirstInvalidFrom(ts, valid, i + 1)

FirstInvalid(ts, valid) == FirstInvalidFrom(ts, valid, 1)

\* lines 273-301, up to the requests.post of post2server
trigger ==
    /\ pc = "trigger"
    /\ LET bad == FirstInvalid(targets, config.validtargets)
       IN  IF bad # 0
           THEN /\ logged' = Append(logged, LogRec("trigger", "fatal",
                        "Invalid target", NoCode, "", targets[bad]))
                /\ ret' = InvalidTargetCode
                /\ pc' = "returned"
                /\ UNCHANGED <<payload, built, server_url, posts>>
           ELSE /\ payload' = BuildPayload(targets, products, docsets, langs)
                /\ built' = TRUE
                /\ server_url' = PlainUrl(config)
                /\ logged' = Append(logged, LogRec("post2server", "info",
                        "Sending payload", NoCode, "", <<>>))
                /\ posts' = Append(posts, [url |-> server_url', json |-> payload'])
                /\ pc' = "trigger_post"
                /\ UNCHANGED ret
    /\ UNCHANGED <<caller, called, subcommand, raw, debug, full, config, func, targets,
                   products, docsets, langs, gets, response, printed, raised,
                   exitcode>>

\* lines 262-267 of post2server: what it logs about the response it returns
Post2serverLog(r) ==
    IF r.status = HTTP_OK
    THEN LogRec("post2server", "info", "Data sent successfully. Response",
                NoCode, r.text, <<>>)
    ELSE LogRec("post2server", "fatal", "Failed to send data", r.status, "", <<>>)

\* the bodies a server answers with
Texts == {"ok", "busy"}
Statuses == {HTTP_OK, 404, 500}
PostAnswers ==
    {HttpResponse(st, tx, <<>>) : st \in Statuses, tx \in Texts} \cup {TransportFailure}

\* lines 300-305: requests.post returns or raises, post2server returns, and
\* trigger ends: the response post2server returns is dropped, and every
\* answer of the server ends in "Data sent successfully." and return 0
trigger_post ==
    /\ pc = "trigger_post"
    /\ \E r \in PostAnswers :
        /\ response' = r
        /\ IF r.kind = "error"
           THEN /\ raised' = "ValueError"
                /\ pc' = "unwound"
                /\ UNCHANGED <<logged, ret>>
           ELSE /\ logged' = logged \o <<Post2serverLog(r),
                        LogRec("trigger", "info", "Data sent successfully.",
                               NoCode, "", <<>>)>>
                /\ ret' = 0
                /\ pc' = "returned"
                /\ UNCHANGED raised
    /\ UNCHANGED <<caller, called, subcommand, raw, debug, full, config, func, targets,
                   products, docsets, langs, server_url, payload, built, posts,
                   gets, printed, exitcode>>

-----------------------------------------------------------------------------
(* metadata *)

\* args.parser.error(message): argparse prints the usage and the message and
\* raises SystemExit
ParserError(msg) ==
    /\ printed' = [kind |-> "usage", lines |-> <<>>, json |-> <<>>, sel |-> <<>>]
    /\ logged' = Append(logged, LogRec("parser.error", "error", msg, NoCode, "", <<>>))
    /\ raised' = "SystemExit"
    /\ pc' = "unwound"

\* lines 324-325
DefaultLangs_keep(ls) == ls
DefaultLangs(ls) == IF ls = <<>> THEN <<S_enus>> ELSE ls

\* line 334: if args.debug
DraftMode_never(dbg) == FALSE
DraftMode(dbg) == dbg

\* lines 312-346, up to the requests.post of post2server
metadata ==
    /\ pc = "metadata"
    /\ server_url' = MetadataUrl(config)
    /\ IF targets = <<>>
       THEN /\ ParserError("metadata: You must define at least one target.")
            /\ UNCHANGED <<langs, payload, built, posts, ret>>
       ELSE IF products = <<>> /\ docsets # <<>>
       THEN /\ ParserError("metadata: You can't use docsets without a product.")
            /\ UNCHANGED <<langs, payload, built, posts, ret>>
       ELSE /\ langs' = DefaultLangs(langs)
            /\ payload' = BuildPayload(targets, products, docsets, langs')
            /\ built' = TRUE
            /\ IF DraftMode(debug)
               THEN /\ printed' = [kind |-> "draft", lines |-> <<>>, json |-> payload',
                                   sel |-> <<targets, products, docsets, langs'>>]
                    /\ ret' = 0
                    /\ pc' = "returned"
                    /\ UNCHANGED <<logged, posts, raised>>
               ELSE /\ logged' = Append(logged, LogRec("post2server", "info",
                            "Sending payload", NoCode, "", <<>>))
                    /\ posts' = Append(posts, [url |-> server_url', json |-> payload'])
                    /\ pc' = "metadata_post"
                    /\ UNCHANGED <<printed, ret, raised>>
    /\ UNCHANGED <<caller, called, subcommand, raw, debug, full, config, func, targets,
                   products, docsets, gets, response, exitcode>>

\* lines 346-358: requests.post returns or raises, post2server returns, and
\* metadata ends
metadata_post ==
    /\ pc = "metadata_post"
    /\ \E r \in PostAnswers :
        /\ response' = r
        /\ IF r.kind = "error"
           THEN /\ logged' = Append(logged, LogRec("metadata", "fatal",
                        "Error occurred while sending data", NoCode, "", <<>>))
                /\ ret' = TransportFailureCode
           ELSE IF r.status = HTTP_OK
           THEN /\ logged' = Append(logged, Post2serverLog(r))
                /\ ret' = 0
           ELSE /\ logged' = logged \o <<Post2serverLog(r),
                        LogRec("metadata", "fatal", "Failed to send data",
                               r.status, "", <<>>),
                        LogRec("metadata", "fatal", "Response", NoCode, r.text, <<>>)>>
                /\ ret' = r.status
    /\ pc' = "returned"
    /\ UNCHANGED <<caller, called, subcommand, raw, debug, full, config, func, targets,
                   products, docsets, langs, server_url, payload, built, posts,
                   gets, printed, raised, exitcode>>

-----------------------------------------------------------------------------
(* queue *)

\* strings of the queue the server reports
V_hex9 == StrVal(<<"a", "1", "b", "2", "c", "3", "d", "4", "e">>)
V_hex8 == StrVal(<<"a", "1", "b", "2", "c", "3", "d", "4">>)
V_hex10 == StrVal(<<"a", "1", "b", "2", "c", "3", "d", "4", "e", "5">>)
V_hex11 == StrVal(<<"0", "1", "2", "3", "4", "5", "6", "7", "8", "9", "a">>)
V_nonhex9 == StrVal(<<"a", "1", "b", "2", "c", "3", "d", "4", "g">>)
V_upper9 == StrVal(<<"A", "1", "B", "2", "C", "3", "D", "4", "E">>)
V_hex9nl == StrVal(<<"a", "1", "b", "2", "c", "3", "d", "4", "e", "\n">>)
V_int9 == IntVal(123456789)
V_empty == StrVal(<<>>)
QueueValues == {V_hex9, V_hex8, V_hex10, V_hex11, V_nonhex9, V_upper9, V_hex9nl,
                V_int9, V_empty, IntVal(7), BoolVal(TRUE)}

DefaultItem ==
    [id |-> StrVal(<<"7">>), product |-> StrVal(<<"x">>), docset |-> StrVal(<<"y">>),
     lang |-> StrVal(S_enus), open |-> BoolVal(TRUE), building |-> BoolVal(FALSE)]

Without(item, key) == [k \in (DOMAIN item) \ {key} |-> item[k]]

QueueItems ==
    {[DefaultItem EXCEPT !["id"] = v] : v \in QueueValues}
    \cup {Without(DefaultItem, "id"), Without(DefaultItem, "building")}
    \cup {[DefaultItem EXCEPT !["product"] = V_int9, !["building"] = V_hex9]}

QueueAnswers ==
    {HttpResponse(HTTP_OK, "ok", data) : data \in SeqsUpTo(QueueItems, MaxItems)}
    \cup {HttpResponse(st, tx, <<>>) : st \in Statuses \ {HTTP_OK}, tx \in Texts}
    \cup {TransportFailure}

\* lines 216-224, up to requests.get
queue ==
    /\ pc = "queue"
    /\ logged' = Append(logged, LogRec("queue", "info",
            "Queue status of Docserv2 instance:", NoCode, "", <<>>))
    /\ server_url' = PlainUrl(config)
    /\ gets' = Append(gets, server_url')
    /\ pc' = "queue_get"
    /\ UNCHANGED <<caller, called, subcommand, raw, debug, full, config, func, targets,
                   products, docsets, langs, payload, built, posts, response,
                   printed, ret, raised, exitcode>>

\* lines 224-246: requests.get returns or raises, and queue ends
queue_get ==
    /\ pc = "queue_get"
    /\ \E r \in QueueAnswers :
        /\ response' = r
        /\ IF r.kind = "error"
           THEN /\ raised' = "RequestException"
                /\ pc' = "unwound"
                /\ UNCHANGED <<printed, logged, ret>>
           ELSE IF r.status = HTTP_OK
           THEN /\ printed' = IF full
                      THEN [kind |-> "json", lines |-> <<>>, json |-> r.json, sel |-> <<>>]
                      ELSE [kind |-> "fields", lines |-> RenderQueue(r.json),
                            json |-> <<>>, sel |-> <<>>]
                /\ ret' = 0
                /\ pc' = "returned"
                /\ UNCHANGED <<logged, raised>>
           ELSE /\ logged' = Append(logged, LogRec("queue", "error",
                        "Failed to fetch data", r.status, r.text, <<>>))
                /\ ret' = r.status
                /\ pc' = "returned"
                /\ UNCHANGED <<printed, raised>>
    /\ UNCHANGED <<caller, called, subcommand, raw, debug, full, config, func, targets,
                   products, docsets, langs, server_url, payload, built, posts,
                   gets, exitcode>>

-----------------------------------------------------------------------------
(* the end of main, and of the process *)

\* lines 369-377: the value args.func returned is dropped, main falls off
\* its end and returns None, so sys.exit(None) ends the process with 0
ExitOfReturn(r) == 0

main_return ==
    /\ pc = "returned"
    /\ caller = "main"
    /\ exitcode' = ExitOfReturn(ret)
    /\ pc' = "done"
    /\ UNCHANGED <<caller, called, subcommand, raw, debug, full, config, func, targets,
                   products, docsets, langs, server_url, payload, built, posts,
                   gets, response, printed, logged, ret, raised>>

\* lines 371-373 and 377: a ValueError is caught, logged and turned into 100;
\* SystemExit carries the status of parser.error; any other exception ends
\* the interpreter with a traceback
main_except ==
    /\ pc = "unwound"
    /\ caller = "main"
    /\ IF raised = "ValueError"
       THEN /\ logged' = Append(logged, LogRec("main", "error",
                    "Error occurred while sending data: ", NoCode, "", <<>>))
            /\ exitcode' = ValueErrorCode
       ELSE /\ exitcode' = IF raised = "SystemExit" THEN ParserErrorStatus
                           ELSE UncaughtStatus
            /\ UNCHANGED logged
    /\ pc' = "done"
    /\ UNCHANGED <<caller, called, subcommand, raw, debug, full, config, func, targets,
                   products, docsets, langs, server_url, payload, built, posts,
                   gets, response, printed, ret, raised>>

\* the handler was called directly: its caller has the value or the exception
direct_return ==
    /\ pc \in {"returned", "unwound"}
    /\ caller = "direct"
    /\ pc' = "done"
    /\ UNCHANGED <<caller, called, subcommand, raw, debug, full, config, func, targets,
                   products, docsets, langs, server_url, payload, built, posts,
                   gets, response, printed, logged, ret, raised, exitcode>>

-----------------------------------------------------------------------------
(* The invocations the model runs: command lines, configurations *)

\* ",".join(tokens)
RECURSIVE Join(_)
Join(ts) ==
    IF ts = <<>> THEN <<>>
    ELSE IF Len(ts) = 1 THEN ts[1]
    ELSE ts[1] \o <<",">> \o Join(Tail(ts))

\* an option left out, or given with up to n of the tokens
RawOf(tokens, n) == {Absent} \cup {Given(Join(ts)) : ts \in SeqsUpTo(tokens, n)}
\* an option given with 1 to n of the tokens
ListsOf(tokens, n) == SeqsUpTo(tokens, n) \ {<<>>}

Tok(c) == <<c>>
NoSelectors == [targets |-> Absent, products |-> Absent, docsets |-> Absent,
                langs |-> Absent]

Server_ds == <<"d", "s">>
Server_http == S_scheme \o Server_ds
Server_https == <<"h", "t", "t", "p", "s", ":", "/", "/">> \o Server_ds
Server_httpd == <<"h", "t", "t", "p", "d">>
Server_htt == <<"h", "t", "t">>
Port_80 == <<"8", "0">>
Port_8443 == <<"8", "4", "4", "3">>
Valid_ab == <<"a", "b">>
Valid_b == <<"b">>
Valid_b_a == <<"b", ",", "a">>

\* the state after the interpreter has loaded the module, for a command line
\* and a configuration file drawn from the given sets
InitWith(cmds, callers, raws, servers, ports, valids) ==
    /\ pc = "start"
    /\ caller \in callers
    /\ subcommand \in cmds
    /\ raw \in raws
    /\ debug \in BOOLEAN
    /\ full \in BOOLEAN
    \* the queue parser has no selector options and no --debug, --full is its own
    /\ subcommand \in QueueCmds => raw = NoSelectors /\ ~debug
    /\ subcommand \notin QueueCmds => ~full
    /\ subcommand \notin MetaCmds => ~debug
    /\ config \in [server : servers, port : ports, validtargets : valids]
    /\ func = "unset"
    /\ called = "none"
    /\ targets = <<>> /\ products = <<>> /\ docsets = <<>> /\ langs = <<>>
    /\ server_url = <<>>
    /\ payload = <<>>
    /\ built = FALSE
    /\ posts = <<>>
    /\ gets = <<>>
    /\ response = NoResponse
    /\ printed = NothingPrinted
    /\ logged = <<>>
    /\ ret = NoCode
    /\ raised = "none"
    /\ exitcode = NoCode

\* every sub-command and alias, each option given or left out
InitBase ==
    InitWith(Subcommands, {"main", "direct"},
             [targets : {Absent, Given(Tok("a"))}, products : {Absent, Given(Tok("x"))},
              docsets : {Absent, Given(Tok("y"))}, langs : {Absent, Given(Tok("e"))}],
             {Server_ds}, {Port_80}, {Valid_ab})

\* trigger with every list of up to MaxSel targets against three allow-lists
InitTargets ==
    InitWith({"trigger"}, {"main", "direct"},
             [targets : RawOf({Tok("a"), Tok("b"), <<"b", "a">>}, MaxSel),
              products : {Given(Tok("x"))}, docsets : {Given(Tok("y"))},
              langs : {Given(Tok("e"))}],
             {Server_ds}, {Port_80}, {Valid_ab, Valid_b, Valid_b_a})

\* meta with every selector left out, empty, or a list of up to MaxSel tokens
InitMeta ==
    InitWith({"meta"}, {"main", "direct"},
             [targets : RawOf({Tok("a")}, MaxSel), products : RawOf({Tok("x")}, MaxSel),
              docsets : RawOf({Tok("y")}, MaxSel), langs : RawOf({Tok("e")}, MaxSel)],
             {Server_ds}, {Port_80}, {Valid_ab})

\* every sub-command against servers with and without a scheme
InitUrl ==
    InitWith(Subcommands, {"main", "direct"},
             [targets : {Absent, Given(Tok("a"))}, products : {Absent},
              docsets : {Absent}, langs : {Absent}],
             {Server_ds, Server_http, Server_https, Server_httpd, Server_htt},
             {Port_80, Port_8443}, {Valid_ab})

Init == InitBase \/ InitTargets \/ InitMeta \/ InitUrl

\* trigger and meta with four lists of 1 to MaxSel tokens, two tokens to choose
\* from for each selector, that make at most MaxJobs jobs
MatrixLists ==
    {q \in ListsOf({Tok("a"), Tok("b")}, MaxSel) \X ListsOf({Tok("x"), Tok("y")}, MaxSel)
         \X ListsOf({Tok("u"), Tok("v")}, MaxSel) \X ListsOf({Tok("e"), Tok("d")}, MaxSel) :
        Len(q[1]) * Len(q[2]) * Len(q[3]) * Len(q[4]) <= MaxJobs}

InitMatrix ==
    InitWith({"trigger", "meta"}, {"main"},
             {[targets |-> Given(Join(q[1])), products |-> Given(Join(q[2])),
               docsets |-> Given(Join(q[3])), langs |-> Given(Join(q[4]))] :
                 q \in MatrixLists},
             {Server_ds}, {Port_80}, {Valid_ab})

\* trigger and meta with --targets any string of up to MaxRaw characters
InitParse ==
    InitWith({"trigger", "meta"}, {"main"},
             [targets : {Absent} \cup
                        {Given(x) : x \in SeqsUpTo({"a", ",", ";", " "}, MaxRaw)},
              products : {Absent, Given(<<>>)}, docsets : {Absent}, langs : {Absent}],
             {Server_ds}, {Port_80}, {Valid_ab})

Next ==
    \/ parsecli
    \/ main_call
    \/ direct_call
    \/ trigger
    \/ trigger_post
    \/ metadata
    \/ metadata_post
    \/ queue
    \/ queue_get
    \/ main_return
    \/ main_except
    \/ direct_return

Spec == Init /\ [][Next]_vars
SpecMatrix == (InitBase \/ InitMatrix) /\ [][Next]_vars
SpecParse == (InitBase \/ InitParse) /\ [][Next]_vars

-----------------------------------------------------------------------------
(* Vocabulary of the properties *)

\* the handler was entered and has run up to its network call or its end
TriggerRan == called = "trigger" /\ pc # "trigger"
MetadataRan == called = "metadata" /\ pc # "metadata"
QueueRan == called = "queue" /\ pc # "queue"
Finished == pc \in {"returned", "unwound", "done"}

\* t occurs in s as a contiguous run of characters
OccursIn(t, s) ==
    \E off \in 0..(Len(s) - Len(t)) : \A k \in 1..Len(t) : s[off + k] = t[k]

\* p is a prefix of s
IsPrefix(p, s) == Len(p) <= Len(s) /\ \A k \in 1..Len(p) : s[k] = p[k]

\* the handler ended in parser.error with this message
FailedWith(msg) ==
    /\ raised = "SystemExit"
    /\ ret = NoCode
    /\ logged # <<>>
    /\ logged[Len(logged)].fn = "parser.error"
    /\ logged[Len(logged)].msg = msg

MissingTargets == "metadata: You must define at least one target."
DocsetsWithoutProduct == "metadata: You can't use docsets without a product."

-----------------------------------------------------------------------------
(* C1 *)

\* the job of the nested loops at 0-based position i: target is the
\* outermost loop and lang the innermost
NestedJob(i, t, p, d, l) ==
    [target |-> t[(i \div (Len(p) * Len(d) * Len(l))) + 1],
     product |-> p[((i \div (Len(d) * Len(l))) % Len(p)) + 1],
     docset |-> d[((i \div Len(l)) % Len(d)) + 1],
     lang |-> l[(i % Len(l)) + 1]]

\* C1: when trigger or metadata has built its payload from four non-empty
\* selector lists T, P, D, L, the payload has |T|*|P|*|D|*|L| jobs, the job at
\* every position is the one of the nested loops target > product > docset >
\* lang (so equal tokens give equal jobs, none removed), and that payload is
\* the one posted.
JobMatrix_C1 ==
    (/\ built
     /\ targets # <<>> /\ products # <<>> /\ docsets # <<>> /\ langs # <<>>)
    => /\ Len(payload) = Len(targets) * Len(products) * Len(docsets) * Len(langs)
       /\ \A i \in 0..(Len(payload) - 1) :
            payload[i + 1] = NestedJob(i, targets, products, docsets, langs)
       /\ \A k \in 1..Len(posts) : posts[k].json = payload

\* trigger has posted 2*2*2*2 jobs built from a duplicated target and two
\* different tokens in the other lists
JobMatrix_C1_witness ==
    /\ subcommand = "trigger"
    /\ pc = "done"
    /\ targets = <<Tok("a"), Tok("a")>>
    /\ products = <<Tok("x"), Tok("y")>>
    /\ docsets = <<Tok("u"), Tok("v")>>
    /\ langs = <<Tok("e"), Tok("d")>>
    /\ Len(payload) = 16
    /\ payload[1] = payload[9]
    /\ Len(posts) = 1

-----------------------------------------------------------------------------
(* C2 *)

\* C2: once trigger has run, either every requested target occurs in the
\* raw validtargets string and trigger has built its payload and posted it,
\* or trigger has returned 20 after logging the first target, in list order,
\* that does not occur in it, with no payload built and no POST.
TargetValidation_C2 ==
    TriggerRan =>
        LET valid == config.validtargets
            ok == \A i \in 1..Len(targets) : OccursIn(targets[i], valid)
        IN  /\ ok => /\ built
                     /\ Len(posts) = 1
                     /\ ret # InvalidTargetCode
                     /\ \A k \in 1..Len(logged) : logged[k].msg # "Invalid target"
            /\ ~ok => /\ ret = InvalidTargetCode
                      /\ ~built
                      /\ payload = <<>>
                      /\ posts = <<>>
                      /\ gets = <<>>
                      /\ \E m \in 1..Len(targets) :
                            /\ ~OccursIn(targets[m], valid)
                            /\ \A j \in 1..(m - 1) : OccursIn(targets[j], valid)
                            /\ logged = <<LogRec("trigger", "fatal", "Invalid target",
                                                 NoCode, "", targets[m])>>

\* trigger ended with 20 at the second of two targets, the first being a
\* substring of validtargets that is no element of it
TargetValidation_C2_witness ==
    /\ subcommand = "trigger"
    /\ pc = "done"
    /\ config.validtargets = Valid_ab
    /\ targets = <<Tok("a"), <<"b", "a">>>>
    /\ ret = InvalidTargetCode
    /\ posts = <<>>

-----------------------------------------------------------------------------
(* C3 *)

\* C3: when the server has answered the POST of trigger with a status other
\* than 200, trigger has not reported success: its result is a failure that
\* carries the status code and the body of the response; and the POST was
\* issued once.
TriggerRejected_C3 ==
    (/\ TriggerRan
     /\ pc \in {"returned", "done"}
     /\ response.kind = "http"
     /\ response.status # HTTP_OK)
    => /\ ret # 0
       /\ ret = response.status
       /\ \E k \in 1..Len(logged) :
            logged[k].level = "fatal" /\ logged[k].text = response.text
       /\ \A k \in 1..Len(logged) : logged[k].msg # "Data sent successfully."
       /\ Len(posts) = 1

-----------------------------------------------------------------------------
(* C4 *)

\* C4: the exit status of a run of main is 0 on success, the HTTP status
\* when the server rejected the request, 20 when trigger found an invalid
\* target, 100 when a ValueError of the dispatch was caught, and not 0 when
\* the GET of queue failed.
ExitCodes_C4 ==
    (caller = "main" /\ pc = "done") =>
        LET rejected == response.kind = "http" /\ response.status # HTTP_OK
            invalid == /\ subcommand \in TriggerCmds
                       /\ \E i \in 1..Len(targets) :
                            ~OccursIn(targets[i], config.validtargets)
            caught == raised = "ValueError"
            getfailed == /\ subcommand \in QueueCmds
                         /\ (response.kind = "error" \/ rejected)
            success == /\ raised = "none"
                       /\ ~rejected /\ ~invalid
                       /\ response.kind # "error"
        IN  /\ success => exitcode = 0
            /\ rejected => exitcode = response.status
            /\ invalid => exitcode = InvalidTargetCode
            /\ caught => exitcode = ValueErrorCode
            /\ getfailed => exitcode # 0

-----------------------------------------------------------------------------
(* C5 *)

\* C5, as claimed: once metadata has run, an empty targets list has failed with
\* MissingTargets, a non-empty docsets list with an empty products list has
\* failed with DocsetsWithoutProduct, both without any POST, and targets =
\* ["a"] with products, docsets and langs empty has passed with langs =
\* ["en-us"].
MetadataValidation_C5_claimed ==
    MetadataRan =>
        /\ targets = <<>> => FailedWith(MissingTargets) /\ posts = <<>> /\ ~built
        /\ (docsets # <<>> /\ products = <<>>)
            => FailedWith(DocsetsWithoutProduct) /\ posts = <<>> /\ ~built
        /\ (/\ targets = <<Tok("a")>> /\ products = <<>> /\ docsets = <<>>
            /\ ParseSelector(raw.langs) = <<>>)
            => raised = "none" /\ built /\ langs = <<S_enus>>

\* C5, amended: the docsets rule is the second one checked: it decides only
\* when targets is non-empty; with targets empty the failure is
\* MissingTargets whatever docsets and products are.
MetadataValidation_C5 ==
    MetadataRan =>
        /\ targets = <<>> => FailedWith(MissingTargets) /\ posts = <<>> /\ ~built
        /\ (targets # <<>> /\ docsets # <<>> /\ products = <<>>)
            => FailedWith(DocsetsWithoutProduct) /\ posts = <<>> /\ ~built
        /\ (/\ targets = <<Tok("a")>> /\ products = <<>> /\ docsets = <<>>
            /\ ParseSelector(raw.langs) = <<>>)
            => raised = "none" /\ built /\ langs = <<S_enus>>

\* metadata has ended in parser.error for docsets without a product, with a
\* target given, before any payload or POST
MetadataValidation_C5_witness ==
    /\ subcommand = "meta"
    /\ pc = "done"
    /\ targets = <<Tok("a")>>
    /\ products = <<>>
    /\ docsets = <<Tok("y")>>
    /\ FailedWith(DocsetsWithoutProduct)
    /\ ~built
    /\ posts = <<>>

-----------------------------------------------------------------------------
(* C6 *)

\* C6, as claimed: whenever metadata has ended in draft mode, whatever the
\* selector lists, no network call was made and it returned 0.
DryRun_C6_claimed ==
    (MetadataRan /\ debug /\ Finished)
    => posts = <<>> /\ gets = <<>> /\ ret = 0

\* C6, amended: whenever metadata has ended in draft mode, no network call
\* was made; it returned 0 when the selectors passed validation (targets
\* non-empty, and no docsets without products), and ended in parser.error
\* without returning otherwise.
DryRun_C6 ==
    (MetadataRan /\ debug /\ Finished)
    => /\ posts = <<>> /\ gets = <<>> /\ response = NoResponse
       /\ IF targets # <<>> /\ ~(products = <<>> /\ docsets # <<>>)
          THEN ret = 0 /\ raised = "none" /\ printed.kind = "draft"
               /\ printed.json = payload
          ELSE ret = NoCode /\ raised = "SystemExit"

\* a draft run that built two jobs, printed them and returned 0
DryRun_C6_witness ==
    /\ subcommand = "meta"
    /\ debug
    /\ pc = "done"
    /\ Len(payload) >= 2
    /\ printed.kind = "draft"
    /\ ret = 0
    /\ posts = <<>>

-----------------------------------------------------------------------------
(* C7 *)

\* tok[1] sep[1] tok[2] sep[2] ... tok[n]
RECURSIVE Interleave(_, _)
Interleave(toks, seps) ==
    IF Len(toks) = 1 THEN toks[1]
    ELSE toks[1] \o <<seps[1]>> \o Interleave(Tail(toks), Tail(seps))

\* toks are the tokens of s between its separator characters, left to right
IsSplitOf(toks, s) ==
    LET seps == SelectSeq(s, LAMBDA c : c \in S_sep)
    IN  /\ Len(toks) = Len(seps) + 1
        /\ \A i \in 1..Len(toks) : \A k \in 1..Len(toks[i]) : toks[i][k] \notin S_sep
        /\ Interleave(toks, seps) = s

ParsedAsClaimed(r, list) ==
    IF ~r.given \/ r.s = <<>> THEN list = <<>> ELSE IsSplitOf(list, r.s)

\* C7: after parsecli, every selector that was left out or given as the
\* empty string is the empty list, and every other selector is the list of
\* the tokens between the separators , ; and space of its raw string, in the
\* order of the string.
SelectorParser_C7 ==
    (pc = "parsed" /\ subcommand \in TriggerCmds \cup MetaCmds)
    => /\ ParsedAsClaimed(raw.targets, targets)
       /\ ParsedAsClaimed(raw.products, products)
       /\ ParsedAsClaimed(raw.docsets, docsets)
       /\ ParsedAsClaimed(raw.langs, langs)

-----------------------------------------------------------------------------
(* C8 *)

\* the value of a field as the claim renders it
RenderedAsClaimed(item, key) ==
    LET sv == Str(IF key \in DOMAIN item THEN item[key] ELSE StrVal(<<>>))
    IN  IF Len(sv) = 9 /\ \A j \in 1..Len(sv) : sv[j] \in HexChars
        THEN <<"-", "-", "-">>
        ELSE sv

\* C8: when queue has ended after a 200 answer and --full was not given, it
\* has printed, for every item in the order of the answer, the six fields id,
\* product, docset, lang, open, building in that order, a value whose string
\* form is exactly 9 characters of [a-f0-9] as --- and every other value
\* unchanged; and it has returned 0.
QueueFields_C8 ==
    (/\ QueueRan
     /\ pc \in {"returned", "done"}
     /\ response.kind = "http" /\ response.status = 200
     /\ ~full)
    => LET data == response.json
           order == <<"id", "product", "docset", "lang", "open", "building">>
       IN  /\ printed.kind = "fields"
           /\ Len(printed.lines) = 6 * Len(data)
           /\ \A i \in 1..Len(data) : \A k \in 1..6 :
                printed.lines[6 * (i - 1) + k] = RenderedAsClaimed(data[i], order[k])
           /\ ret = 0

\* queue has printed two items: the 9-character hex id as ---, the
\* 11-character one unchanged
QueueFields_C8_witness ==
    /\ subcommand = "queue"
    /\ pc = "done"
    /\ ~full
    /\ Len(response.json) = 2
    /\ response.json[1] = [DefaultItem EXCEPT !["id"] = V_hex9]
    /\ response.json[2] = [DefaultItem EXCEPT !["id"] = V_hex11]
    /\ printed.lines[1] = S_dashes
    /\ printed.lines[7] = V_hex11.s
    /\ Len(printed.lines) = 12

-----------------------------------------------------------------------------
(* C9 *)

\* C9: when main has run the queue sub-command (or q) to its end, the queue
\* function was called and has issued exactly one GET, to the composed
\* server URL, and no payload was built and no POST issued.
QueuePath_C9 ==
    (caller = "main" /\ subcommand \in QueueCmds /\ pc = "done")
    => /\ Len(gets) = 1
       /\ gets[1] = server_url
       /\ server_url # <<>>
       /\ ~built
       /\ posts = <<>>

-----------------------------------------------------------------------------
(* C10 *)

\* the URL of the claim: server:port, with http:// in front exactly when it
\* does not begin with http or https, and /metadata behind exactly when the
\* operation is metadata and http:// was put in front
UrlAsClaimed(cfg, cmd) ==
    LET composed == cfg.server \o <<":">> \o cfg.port
        lacks == ~(IsPrefix(<<"h", "t", "t", "p">>, composed)
                   \/ IsPrefix(<<"h", "t", "t", "p", "s">>, composed))
        front == IF lacks THEN <<"h", "t", "t", "p", ":", "/", "/">> ELSE <<>>
        behind == IF cmd \in MetaCmds /\ lacks
                  THEN <<"/", "m", "e", "t", "a", "d", "a", "t", "a">> ELSE <<>>
    IN  front \o composed \o behind

\* the handler of the sub-command has composed its URL
UrlComposed ==
    \/ QueueRan
    \/ TriggerRan /\ built
    \/ MetadataRan

====
